---- MODULE Spec2Model ----
(***************************************************************************)
(* State-machine model of denura's recurrent cells and sequence drivers:   *)
(*   RANCell / RAN                      (ran.py)                           *)
(*   TopDownLSTMCell / TopDownLSTM      (topdown.py)                       *)
(* Tensors are modelled per batch sample with hidden_size = input_size = 1 *)
(* over the finite ring Z_Modulus, so that every product, sum and blend of *)
(* the code is computed (not assumed).                                     *)
(***************************************************************************)
EXTENDS Integers, Sequences, FiniteSets, TLC

\* ------------------------------------------------------------------ bounds
MaxTime == 2
MaxLayers == 3
MaxDrops == 1
Modulus == 5

Samples == 1..2
Val == 0..(Modulus - 1)
None == <<>>

\* --------------------------------------------------------- numeric backend
Add(a, b) == (a + b) % Modulus
Mul(a, b) == (a * b) % Modulus

\* torch.sigmoid: sigmoid(0) = 1/2 and sigmoid(-x) = 1 - sigmoid(x)
Half == (Modulus + 1) \div 2
sigmoid(x) == Mul(Add(1, x), Half)

\* torch.tanh: odd, tanh(0) = 0
tanh(x) == Mul(x, Mul(x, x))

Fill(v) == [b \in Samples |-> v]

\* torch.stack(list, 0): a Python list (1-based here) to a tensor indexed from 0
stack(list) == [i \in 0..(Len(list) - 1) |-> list[i + 1]]

\* input_.size(0)
size0(x) == Cardinality(DOMAIN x)

\* weight.data.uniform_(-stdv, stdv): a parameter value, never zero here,
\* different for every (layer, matrix, gate column)
Uniform(layer, k) == ((layer + k) % (Modulus - 1)) + 1

\* ------------------------------------------------------------------- cells
RANCell(layer, ub) ==
    [type      |-> "RANCell",
     use_bias  |-> ub,
     weight_ih |-> <<Uniform(layer, 1), Uniform(layer, 2)>>,
     weight_hh |-> <<Uniform(layer, 3), Uniform(layer, 4)>>,
     weight_ic |-> <<Uniform(layer, 5)>>,
     \* attribute bias_h exists only under use_bias (<<>>: no such attribute)
     bias_h    |-> IF ub THEN <<0, 0>> ELSE None]

\* RANCell.forward reads self.bias_h unconditionally
RANCellRaises(cell) == cell.bias_h = None

RANCellForward(cell, input, hx0) ==
    LET h_0 == hx0[1]
        c_0 == hx0[2]
        wh_b(b, k) == Add(cell.bias_h[k], Mul(h_0[b], cell.weight_hh[k]))
        wi(b, k) == Mul(input[b], cell.weight_ih[k])
        wc(b) == Mul(input[b], cell.weight_ic[1])
        f(b) == Add(wh_b(b, 1), wi(b, 1))
        i(b) == Add(wh_b(b, 2), wi(b, 2))
        c_1 == [b \in Samples |->
                  Add(Mul(sigmoid(i(b)), wc(b)), Mul(sigmoid(f(b)), tanh(c_0[b])))]
        h_1 == [b \in Samples |-> tanh(c_1[b])]
    IN  <<h_1, c_1>>

TopDownLSTMCell(layer, ub) ==
    [type      |-> "TopDownLSTMCell",
     use_bias  |-> ub,
     weight_bh |-> [k \in 1..4 |-> Uniform(layer, k)],
     weight_hh |-> [k \in 1..4 |-> Uniform(layer, k + 1)],
     weight_th |-> [k \in 1..4 |-> Uniform(layer, k + 2)],
     \* self.bias is None without use_bias
     bias      |-> IF ub THEN <<0, 0, 0, 0>> ELSE None]

\* TopDownLSTMCell.forward calls self.bias.unsqueeze unconditionally
TopDownLSTMCellRaises(cell) == cell.bias = None

TopDownLSTMCellForward(cell, input_bottom, input_top, hx0) ==
    LET h_0 == hx0[1]
        c_0 == hx0[2]
        wh_b(b, k) == Add(cell.bias[k], Mul(h_0[b], cell.weight_hh[k]))
        wb(b, k) == Mul(input_bottom[b], cell.weight_bh[k])
        wt(b, k) == Mul(input_top[b], cell.weight_th[k])
        gate(b, k) == Add(Add(wh_b(b, k), wb(b, k)), wt(b, k))
        f(b) == gate(b, 1)
        i(b) == gate(b, 2)
        o(b) == gate(b, 3)
        g(b) == gate(b, 4)
        c_1 == [b \in Samples |->
                  Add(Mul(sigmoid(f(b)), c_0[b]), Mul(sigmoid(i(b)), tanh(g(b))))]
        h_1 == [b \in Samples |-> Mul(sigmoid(o(b)), tanh(c_1[b]))]
    IN  <<h_1, c_1>>

\* lstm.LSTMCell: the conventional four-gate cell used as the top layer
LSTMCell(layer, ub) ==
    [type      |-> "LSTMCell",
     use_bias  |-> ub,
     weight_ih |-> [k \in 1..4 |-> Uniform(layer, k)],
     weight_hh |-> [k \in 1..4 |-> Uniform(layer, k + 1)],
     bias      |-> IF ub THEN <<0, 0, 0, 0>> ELSE None]

LSTMCellForward(cell, input, hx0) ==
    LET h_0 == hx0[1]
        c_0 == hx0[2]
        gate(b, k) == Add(Add(cell.bias[k], Mul(h_0[b], cell.weight_hh[k])),
                          Mul(input[b], cell.weight_ih[k]))
        c_1 == [b \in Samples |->
                  Add(Mul(sigmoid(gate(b, 1)), c_0[b]),
                      Mul(sigmoid(gate(b, 2)), tanh(gate(b, 4))))]
        h_1 == [b \in Samples |-> Mul(sigmoid(gate(b, 3)), tanh(c_1[b]))]
    IN  <<h_1, c_1>>

\* ---------------------------------------------------------------- masking
\* (time < length).float().unsqueeze(1).expand_as(h_next)
RANMask_late(time, len) == [b \in Samples |-> IF time <= len[b] THEN 1 ELSE 0]
RANMask_early(time, len) == [b \in Samples |-> IF time + 1 < len[b] THEN 1 ELSE 0]
RANMask(time, len) == [b \in Samples |-> IF time < len[b] THEN 1 ELSE 0]

\* h_next*mask + hx[0]*(1 - mask)
Blend(next, prev, mask) ==
    [b \in Samples |-> Add(Mul(next[b], mask[b]), Mul(prev[b], 1 - mask[b]))]

\* util.mask_time (SequenceMasker): keep the new state while t < length[b],
\* else the previous one
mask_time(time, len, h_nxt, c_nxt, h_prev, c_prev) ==
    <<[b \in Samples |-> IF time < len[b] THEN h_nxt[b] ELSE h_prev[b]],
      [b \in Samples |-> IF time < len[b] THEN c_nxt[b] ELSE c_prev[b]]>>

\* ---------------------------------------------------------------- dropout
\* nn.Dropout(p) in training mode, p in percent: the elements of D are zeroed,
\* the others scaled by 1/(1-p); p = 0 changes nothing
DropoutPs == {0, 50}
DropScale(p) == 100 \div (100 - p)
DropSets(p, S, budget) ==
    IF p = 0 THEN {{}} ELSE {D \in SUBSET S : Cardinality(D) <= budget}

\* on a (batch) tensor
dropout_vec(p, x, D) ==
    [b \in Samples |-> IF b \in D THEN 0 ELSE Mul(x[b], DropScale(p))]

\* on a (time, batch) tensor
dropout_seq(p, x, D) ==
    [i \in DOMAIN x |->
       [b \in Samples |-> IF <<i, b>> \in D THEN 0 ELSE Mul(x[i][b], DropScale(p))]]

\* ------------------------------------------------------------------ inputs
Vec == [Samples -> Val]
\* the input features of one timestep: differing across the batch, or equal
InputVecs == {[b \in Samples |-> (b - 1) % Modulus], Fill(1)}
Inputs == UNION {[0..(n - 1) -> InputVecs] : n \in 1..MaxTime}
Lengths == {None} \cup [Samples -> 0..MaxTime]
\* caller-supplied initial state (num_layers, batch, hidden) x 2, or None
HxArgs(n) == {None,
              <<[i \in 0..(n - 1) |-> Fill(0)], [i \in 0..(n - 1) |-> Fill(0)]>>,
              <<[i \in 0..(n - 1) |-> Fill(1)], [i \in 0..(n - 1) |-> Fill(2)]>>}
CellHx == {<<Fill(0), Fill(0)>>, <<Fill(1), Fill(2)>>}

\* ------------------------------------------------------------------- state
VARIABLES
    pc,            \* "new", "idle", "layer", "rnn", "running", "done", "failed"
    kind,          \* class of the constructed object
    err,           \* exception that ended the call
    num_layers, dropout, cells,       \* self.num_layers, self.dropout, self.cell_<i>
    args,          \* arguments of the last call (constructor or forward)
    input_, length,                   \* locals of forward
    rnn_hx,        \* hx of RAN._forward_rnn
    Ht, C,         \* TopDownLSTM.forward state arrays
    h_n, c_n,      \* RAN.forward final-state lists
    t, l,          \* loop counters (RAN: time, layer)
    top, bottom,   \* inputs of the last TopDownLSTM cell call
    output, layer_output,
    ret,           \* value returned by forward
    trace,         \* history: <<t, layer>> |-> cell result and committed state
    dropped        \* elements zeroed by dropout so far

vars == <<pc, kind, err, num_layers, dropout, cells, args, input_, length, rnn_hx,
          Ht, C, h_n, c_n, t, l, top, bottom, output, layer_output, ret, trace,
          dropped>>

obj == <<kind, num_layers, dropout, cells>>
locals == <<input_, length, rnn_hx, Ht, C, h_n, c_n, t, l, top, bottom, output,
            layer_output, trace, dropped>>

Init ==
    /\ pc = "new" /\ kind = "none" /\ err = "none"
    /\ num_layers = 0 /\ dropout = 0 /\ cells = <<>>
    /\ args = <<>> /\ input_ = <<>> /\ length = <<>> /\ rnn_hx = <<>>
    /\ Ht = <<>> /\ C = <<>> /\ h_n = <<>> /\ c_n = <<>>
    /\ t = 0 /\ l = 0 /\ top = <<>> /\ bottom = <<>>
    /\ output = <<>> /\ layer_output = <<>> /\ ret = <<>>
    /\ trace = <<>> /\ dropped = 0

\* ------------------------------------------------------- standalone cells
\* RANCell(input_size, hidden_size, use_bias)
RANCell_init ==
    /\ pc = "new"
    /\ \E ub \in BOOLEAN :
          /\ cells' = [i \in {0} |-> RANCell(0, ub)]
          /\ args' = [use_bias |-> ub]
    /\ kind' = "RANCell" /\ num_layers' = 1 /\ pc' = "idle"
    /\ UNCHANGED <<err, dropout, ret, locals>>

RANCell_forward ==
    /\ pc = "idle" /\ kind = "RANCell"
    /\ \E x \in InputVecs, hx0 \in CellHx :
          /\ args' = [input_ |-> x, hx |-> hx0]
          /\ IF RANCellRaises(cells[0])
             THEN pc' = "failed" /\ err' = "AttributeError" /\ ret' = ret
             ELSE pc' = "done" /\ err' = err /\ ret' = RANCellForward(cells[0], x, hx0)
    /\ UNCHANGED <<obj, locals>>

\* TopDownLSTMCell(input_size, hidden_size, use_bias)
TopDownLSTMCell_init ==
    /\ pc = "new"
    /\ \E ub \in BOOLEAN :
          /\ cells' = [i \in {0} |-> TopDownLSTMCell(0, ub)]
          /\ args' = [use_bias |-> ub]
    /\ kind' = "TopDownLSTMCell" /\ num_layers' = 1 /\ pc' = "idle"
    /\ UNCHANGED <<err, dropout, ret, locals>>

TopDownLSTMCell_forward ==
    /\ pc = "idle" /\ kind = "TopDownLSTMCell"
    /\ \E xb \in InputVecs, xt \in {Fill(0), Fill(1)}, hx0 \in CellHx :
          /\ args' = [input_bottom |-> xb, input_top |-> xt, hx |-> hx0]
          /\ IF TopDownLSTMCellRaises(cells[0])
             THEN pc' = "failed" /\ err' = "AttributeError" /\ ret' = ret
             ELSE /\ pc' = "done" /\ err' = err
                  /\ ret' = TopDownLSTMCellForward(cells[0], xb, xt, hx0)
    /\ UNCHANGED <<obj, locals>>

\* -------------------------------------------------------------- RAN driver
\* RAN.__init__: use_bias is a named parameter, so it is not in **kwargs and
\* every cell is built with RANCell's default use_bias=True
RANCells(n, ub) == [i \in 0..(n - 1) |-> RANCell(i, TRUE)]

RAN_init ==
    /\ pc = "new"
    /\ \E n \in 1..MaxLayers, ub \in BOOLEAN, p \in DropoutPs :
          /\ num_layers' = n /\ dropout' = p
          /\ cells' = RANCells(n, ub)
          /\ args' = [num_layers |-> n, use_bias |-> ub, dropout |-> p]
    /\ kind' = "RAN" /\ pc' = "idle"
    /\ UNCHANGED <<err, ret, locals>>

\* the name num_layers is bound neither in RAN.forward nor in module ran
NumLayersNameBound == FALSE

\* RAN.forward up to the layer loop
RAN_forward ==
    /\ pc = "idle" /\ kind = "RAN"
    /\ \E inp \in Inputs, hxa \in HxArgs(num_layers), len \in Lengths :
          /\ args' = [input_ |-> inp, hx |-> hxa, length |-> len]
          /\ input_' = inp
          /\ length' = IF len = None THEN Fill(size0(inp)) ELSE len
          /\ IF hxa = None /\ ~NumLayersNameBound
             THEN /\ pc' = "failed" /\ err' = "NameError"
                  /\ UNCHANGED <<h_n, c_n, layer_output, l>>
             ELSE /\ pc' = "layer" /\ err' = err
                  /\ h_n' = <<>> /\ c_n' = <<>> /\ layer_output' = None /\ l' = 0
    /\ UNCHANGED <<obj, rnn_hx, Ht, C, t, top, bottom, output, ret, trace, dropped>>

\* h0, c0 = hx[0][layer], hx[1][layer]
RANLayerHx(hxa, layer) ==
    IF hxa = None
    THEN <<Fill(0), Fill(0)>>
    ELSE <<hxa[1][layer], hxa[2][layer]>>

\* one pass of the layer loop up to the call of _forward_rnn
RAN_layer_begin ==
    /\ pc = "layer" /\ kind = "RAN" /\ l < num_layers
    /\ rnn_hx' = RANLayerHx(args.hx, l)
    /\ t' = 0 /\ output' = <<>>
    /\ pc' = "rnn"
    /\ UNCHANGED <<obj, err, args, input_, length, Ht, C, h_n, c_n, l, top, bottom,
                   layer_output, ret, trace, dropped>>

\* hx_next = (h_next, c_next); hx = hx_next
RANCarry_unmasked(h_masked, c_masked, h_cell, c_cell) == <<h_cell, c_cell>>
RANCarry(h_masked, c_masked, h_cell, c_cell) == <<h_masked, c_masked>>

\* one iteration of the time loop of RAN._forward_rnn
RAN_forward_rnn_step ==
    /\ pc = "rnn" /\ kind = "RAN" /\ t < size0(input_)
    /\ LET r == RANCellForward(cells[l], input_[t], rnn_hx)
           mask == RANMask(t, length)
           h_nxt == Blend(r[1], rnn_hx[1], mask)
           c_nxt == Blend(r[2], rnn_hx[2], mask)
           hx_next == RANCarry(h_nxt, c_nxt, r[1], r[2])
       IN  /\ output' = Append(output, h_nxt)
           /\ rnn_hx' = hx_next
           /\ trace' = trace @@ (<<t, l>> :> [h |-> hx_next[1], c |-> hx_next[2],
                                             h_cell |-> r[1], c_cell |-> r[2]])
    /\ t' = t + 1
    /\ UNCHANGED <<pc, obj, err, args, input_, length, Ht, C, h_n, c_n, l, top, bottom,
                   layer_output, ret, dropped>>

\* if layer < self.num_layers - 1
RANDropoutApplies(layer, n) == layer < n - 1

\* _forward_rnn returns; the rest of the layer loop's body
RAN_layer_end ==
    /\ pc = "rnn" /\ kind = "RAN" /\ t = size0(input_)
    /\ layer_output' = stack(output)
    /\ IF RANDropoutApplies(l, num_layers)
       THEN \E D \in DropSets(dropout, (DOMAIN input_) \X Samples, MaxDrops - dropped) :
               /\ input_' = dropout_seq(dropout, stack(output), D)
               /\ dropped' = dropped + Cardinality(D)
       ELSE /\ input_' = stack(output)
            /\ dropped' = dropped
    /\ h_n' = Append(h_n, rnn_hx[1])
    /\ c_n' = Append(c_n, rnn_hx[2])
    /\ l' = l + 1
    /\ pc' = "layer"
    /\ UNCHANGED <<obj, err, args, length, rnn_hx, Ht, C, t, top, bottom, output, ret,
                   trace>>

\* after the layer loop
RAN_return ==
    /\ pc = "layer" /\ kind = "RAN" /\ l = num_layers
    /\ ret' = [output |-> layer_output, h |-> stack(h_n), c |-> stack(c_n)]
    /\ pc' = "done"
    /\ UNCHANGED <<obj, err, args, locals>>

\* ------------------------------------------------------ TopDownLSTM driver
\* assert num_layers >= 2
NumLayersAccepted_one(n) == n >= 1
NumLayersAccepted(n) == n >= 2

\* cell_0 .. cell_{n-2} are TopDownLSTMCell, cell_{n-1} is LSTMCell; as for RAN,
\* use_bias never reaches the cells
TopDownLSTMCells(n, ub) ==
    [i \in 0..(n - 1) |-> IF i < n - 1 THEN TopDownLSTMCell(i, TRUE)
                                       ELSE LSTMCell(n - 1, TRUE)]

TopDownLSTM_init ==
    /\ pc = "new"
    /\ \E n \in 1..MaxLayers, ub \in BOOLEAN, p \in DropoutPs :
          /\ args' = [num_layers |-> n, use_bias |-> ub, dropout |-> p]
          /\ IF ~NumLayersAccepted(n)
             THEN /\ pc' = "failed" /\ err' = "AssertionError"
                  /\ UNCHANGED <<num_layers, dropout, cells>>
             ELSE /\ pc' = "idle" /\ err' = err
                  /\ num_layers' = n /\ dropout' = p
                  /\ cells' = TopDownLSTMCells(n, ub)
    /\ kind' = "TopDownLSTM"
    /\ UNCHANGED <<ret, locals>>

\* input_.data.new(self.num_layers, batch_size, self.hidden_size).zero_()
Zeros(n) == [i \in 0..(n - 1) |-> Fill(0)]

\* TopDownLSTM.forward up to the loops: "Ht, C = hx" follows the zero
\* initialisation instead of being its else branch
TopDownLSTM_forward ==
    /\ pc = "idle" /\ kind = "TopDownLSTM"
    /\ \E inp \in Inputs, hxa \in HxArgs(num_layers), len \in Lengths :
          /\ args' = [input_ |-> inp, hx |-> hxa, length |-> len]
          /\ input_' = inp
          /\ length' = IF len = None THEN Fill(size0(inp)) ELSE len
          /\ IF hxa = None
             THEN /\ Ht' = Zeros(num_layers) /\ C' = Zeros(num_layers)
                  /\ pc' = "failed" /\ err' = "TypeError"
                  /\ UNCHANGED <<t, l, output>>
             ELSE /\ Ht' = hxa[1] /\ C' = hxa[2]
                  /\ t' = 0 /\ l' = 0 /\ output' = <<>>
                  /\ pc' = "running" /\ err' = err
    /\ UNCHANGED <<obj, rnn_hx, h_n, c_n, top, bottom, layer_output, ret, trace,
                   dropped>>

\* for l in range(self.num_layers): the layer visited at position k
range_reversed(n, k) == n - 1 - k
range(n, k) == k

\* the branch taken for layer l: "l == 0", "0 < l < num_layers-1", else
Branch(layer, n) ==
    IF layer = 0 THEN "lowest"
    ELSE IF layer > 0 /\ layer < n - 1 THEN "middle"
    ELSE "top"

\* output.append(h_next) stands in the else branch only
OutputAfter_every(out, h, layer, n) == Append(out, h)
OutputAfter(out, h, layer, n) ==
    IF Branch(layer, n) = "top" THEN Append(out, h) ELSE out

\* one (t, l) iteration of the loops of TopDownLSTM.forward; l counts the
\* positions of the layer loop, range(num_layers, l) is the layer
TopDownLSTM_step ==
    /\ pc = "running" /\ kind = "TopDownLSTM" /\ t < size0(input_)
    /\ LET layer == range(num_layers, l)
           br == Branch(layer, num_layers)
           hx0 == <<Ht[layer], C[layer]>>
       IN  \E Dt \in IF br = "middle"
                     THEN DropSets(dropout, Samples, MaxDrops - dropped)
                     ELSE {{}} :
           \E Db \in IF br # "lowest"
                     THEN DropSets(dropout, Samples, MaxDrops - dropped - Cardinality(Dt))
                     ELSE {{}} :
             LET tp == IF br = "lowest" THEN Ht[1]
                       ELSE IF br = "middle" THEN dropout_vec(dropout, Ht[layer + 1], Dt)
                       ELSE None
                 bt == IF br = "lowest" THEN input_[t]
                       ELSE dropout_vec(dropout, Ht[layer - 1], Db)
                 r == IF br = "top" THEN LSTMCellForward(cells[layer], bt, hx0)
                      ELSE TopDownLSTMCellForward(cells[layer], bt, tp, hx0)
                 m == mask_time(t, length, r[1], r[2], hx0[1], hx0[2])
             IN  /\ top' = tp /\ bottom' = bt
                 /\ output' = OutputAfter(output, m[1], layer, num_layers)
                 /\ C' = [C EXCEPT ![layer] =
                            [b \in Samples |-> Add(Mul(C[layer][b], 0), m[2][b])]]
                 /\ Ht' = [Ht EXCEPT ![layer] =
                            [b \in Samples |-> Add(Mul(Ht[layer][b], 0), m[1][b])]]
                 /\ trace' = trace @@ (<<t, layer>> :> [h |-> m[1], c |-> m[2],
                                                        h_cell |-> r[1], c_cell |-> r[2]])
                 /\ dropped' = dropped + Cardinality(Dt) + Cardinality(Db)
    /\ l' = IF l + 1 < num_layers THEN l + 1 ELSE 0
    /\ t' = IF l + 1 < num_layers THEN t ELSE t + 1
    /\ UNCHANGED <<pc, obj, err, args, input_, length, rnn_hx, h_n, c_n, layer_output,
                   ret>>

\* after the loops
TopDownLSTM_return ==
    /\ pc = "running" /\ kind = "TopDownLSTM" /\ t = size0(input_)
    /\ ret' = [output |-> stack(output), h |-> Ht, c |-> C]
    /\ pc' = "done"
    /\ UNCHANGED <<obj, err, args, locals>>

\* ----------------------------------------------------------- specification
Next ==
    \/ RANCell_init
    \/ RANCell_forward
    \/ TopDownLSTMCell_init
    \/ TopDownLSTMCell_forward
    \/ RAN_init
    \/ RAN_forward
    \/ RAN_layer_begin
    \/ RAN_forward_rnn_step
    \/ RAN_layer_end
    \/ RAN_return
    \/ TopDownLSTM_init
    \/ TopDownLSTM_forward
    \/ TopDownLSTM_step
    \/ TopDownLSTM_return

Spec == Init /\ [][Next]_vars

\* ================================================================== claims
Drivers == {"RAN", "TopDownLSTM"}
Called == pc \in {"layer", "rnn", "running", "done"}

\* C1: in both drivers, for every sample b with 1 <= length[b] <= max_time, every
\* layer and every timestep t >= length[b], the (h, c) of b after timestep t is
\* its (h, c) after timestep length[b]-1, and the returned final state carries
\* that frozen value.
C1_StateFreezes ==
    kind \in Drivers =>
      /\ \A k \in DOMAIN trace : \A b \in Samples :
           (1 <= length[b] /\ length[b] <= size0(args.input_) /\ k[1] >= length[b]) =>
              LET e == <<length[b] - 1, k[2]>>
              IN  /\ e \in DOMAIN trace
                  /\ trace[k].h[b] = trace[e].h[b]
                  /\ trace[k].c[b] = trace[e].c[b]
      /\ pc = "done" =>
           \A layer \in 0..(num_layers - 1) : \A b \in Samples :
              (1 <= length[b] /\ length[b] <= size0(args.input_)) =>
                 /\ ret.h[layer][b] = trace[<<length[b] - 1, layer>>].h[b]
                 /\ ret.c[layer][b] = trace[<<length[b] - 1, layer>>].c[b]

\* a finished TopDownLSTM pass in which a sample ended after one step and the
\* cell's value of the next step, which differs, was discarded
C1_Witness ==
    /\ kind = "TopDownLSTM" /\ pc = "done"
    /\ \E b \in Samples : \E layer \in 0..(num_layers - 1) :
         /\ length[b] = 1
         /\ <<1, layer>> \in DOMAIN trace
         /\ trace[<<1, layer>>].h_cell[b] # trace[<<1, layer>>].h[b]
         /\ ret.h[layer][b] = trace[<<0, layer>>].h[b]

\* C2: in TopDownLSTM, the top input of a non-top layer l at timestep t is layer
\* l+1's hidden state committed at timestep t-1 (the initial state when t = 0),
\* through dropout for the middle layers and as it is for layer 0; layer l+1 has
\* not committed at timestep t when layer l runs.
C2_TopInputIsPreviousStep ==
    [][\A k \in (DOMAIN trace') \ (DOMAIN trace) :
          (kind = "TopDownLSTM" /\ k[2] < num_layers - 1) =>
             LET src == IF k[1] = 0 THEN args.hx[1][k[2] + 1]
                        ELSE trace[<<k[1] - 1, k[2] + 1>>].h
             IN  /\ <<k[1], k[2] + 1>> \notin DOMAIN trace
                 /\ IF k[2] = 0
                    THEN top' = src
                    ELSE \E D \in DropSets(dropout, Samples, Cardinality(Samples)) :
                            top' = dropout_vec(dropout, src, D)]_vars

\* layer 0 has just run at timestep 1 on layer 1's state of timestep 0, which
\* is not the initial state
C2_Witness ==
    /\ kind = "TopDownLSTM" /\ pc = "running"
    /\ t = 1 /\ l = 1
    /\ <<1, 0>> \in DOMAIN trace /\ <<1, 1>> \notin DOMAIN trace
    /\ top = trace[<<0, 1>>].h
    /\ top # args.hx[1][1]

\* C3: TopDownLSTM.forward without hx completes, starting from all-zero Ht and C.
C3_ForwardWithoutHxCompletes ==
    (kind = "TopDownLSTM" /\ pc \in {"running", "done", "failed"}
       /\ err # "AssertionError" /\ args.hx = None)
    => (pc # "failed" /\ err = "none")

\* C4: RAN.forward without hx completes, starting every layer from zeros.
C4_ForwardWithoutHxCompletes ==
    (kind = "RAN" /\ pc \in {"layer", "rnn", "done", "failed"} /\ args.hx = None)
    => (pc # "failed" /\ err = "none")

\* one RANCell applied to input[0], ..., input[n-1] in order, the length mask
\* applied after each step
RECURSIVE RANCellUnrolled(_, _, _, _, _)
RANCellUnrolled(cell, inp, hx0, len, n) ==
    IF n = 0 THEN hx0
    ELSE LET prev == RANCellUnrolled(cell, inp, hx0, len, n - 1)
             r == RANCellForward(cell, inp[n - 1], prev)
         IN  mask_time(n - 1, len, r[1], r[2], prev[1], prev[2])

\* C5: RAN with num_layers = 1 returns the output sequence and final (h, c) of
\* one RANCell applied to the inputs in order with the length mask after each
\* step; dropout zeroes nothing on the way.
C5_SingleLayerIsUnrolledCell ==
    (kind = "RAN" /\ num_layers = 1 /\ pc = "done") =>
       LET T == size0(args.input_)
           len == IF args.length = None THEN Fill(T) ELSE args.length
           hx0 == <<args.hx[1][0], args.hx[2][0]>>
       IN  /\ DOMAIN ret.output = 0..(T - 1)
           /\ \A i \in 0..(T - 1) :
                 ret.output[i] = RANCellUnrolled(cells[0], args.input_, hx0, len, i + 1)[1]
           /\ ret.h[0] = RANCellUnrolled(cells[0], args.input_, hx0, len, T)[1]
           /\ ret.c[0] = RANCellUnrolled(cells[0], args.input_, hx0, len, T)[2]
           /\ dropped = 0

\* a finished one-layer pass with dropout configured, a sample that ended
\* early and an output that moved
C5_Witness ==
    /\ kind = "RAN" /\ num_layers = 1 /\ pc = "done"
    /\ dropout = 50
    /\ size0(args.input_) = MaxTime
    /\ \E b \in Samples : length[b] = 1
    /\ \E b \in Samples : length[b] = MaxTime /\ ret.output[0][b] # ret.output[1][b]

\* C6: TopDownLSTM's output has one entry per timestep, appended by the top
\* layer only; entry t is the top layer's masked hidden state committed at t,
\* and the returned state is (Ht, C) as left by the last layer of the last step.
C6_OutputIsTopLayer ==
    (kind = "TopDownLSTM" /\ pc \in {"running", "done"}) =>
       /\ Len(output) = Cardinality({k \in DOMAIN trace : k[2] = num_layers - 1})
       /\ \A i \in 1..Len(output) : output[i] = trace[<<i - 1, num_layers - 1>>].h
       /\ pc = "done" =>
            LET T == size0(args.input_)
            IN  /\ DOMAIN ret.output = 0..(T - 1)
                /\ \A i \in 0..(T - 1) :
                      ret.output[i] = trace[<<i, num_layers - 1>>].h
                /\ \A layer \in 0..(num_layers - 1) :
                      /\ ret.h[layer] = trace[<<T - 1, layer>>].h
                      /\ ret.c[layer] = trace[<<T - 1, layer>>].c

\* a finished pass over MaxTime steps whose output entries differ from the
\* lower layer's states
C6_Witness ==
    /\ kind = "TopDownLSTM" /\ pc = "done"
    /\ size0(args.input_) = MaxTime
    /\ DOMAIN ret.output = 0..(MaxTime - 1)
    /\ ret.output[0] # ret.output[1]
    /\ ret.output[1] # trace[<<1, 0>>].h

\* C7: when every sample's length is max_time (explicitly or by default), the
\* committed (h, c) of every layer and timestep is the cell's fresh result.
C7_FullLengthMaskIsNoOp ==
    kind \in Drivers =>
      \A k \in DOMAIN trace :
         (\A b \in Samples : length[b] = size0(args.input_)) =>
            /\ trace[k].h = trace[k].h_cell
            /\ trace[k].c = trace[k].c_cell

\* a finished RAN pass with the length vector omitted, in which the state moved
C7_Witness ==
    /\ kind = "RAN" /\ pc = "done"
    /\ args.length = None
    /\ length = Fill(size0(args.input_))
    /\ size0(args.input_) = MaxTime
    /\ trace[<<0, 0>>].h # args.hx[1][0]
    /\ trace[<<1, 0>>].h # trace[<<0, 0>>].h

\* C8: a cell constructed with use_bias disabled has no bias vector and its
\* forward step completes and returns (h_next, c_next).
C8_ForwardWithoutBiasCompletes ==
    (kind \in {"RANCell", "TopDownLSTMCell"} /\ pc \in {"done", "failed"}
       /\ ~cells[0].use_bias)
    => (pc = "done" /\ err = "none")

\* C9: TopDownLSTM(num_layers < 2) fails with no cell created; otherwise the
\* layers 0..num_layers-2 are TopDownLSTMCell and layer num_layers-1 an LSTMCell.
C9_ConstructionValidatesLayers ==
    (kind = "TopDownLSTM" /\ pc \in {"idle", "failed"} /\ err # "TypeError") =>
       IF args.num_layers < 2
       THEN pc = "failed" /\ err = "AssertionError" /\ cells = <<>>
       ELSE /\ pc = "idle" /\ err = "none"
            /\ num_layers = args.num_layers
            /\ DOMAIN cells = 0..(num_layers - 1)
            /\ \A i \in 0..(num_layers - 2) : cells[i].type = "TopDownLSTMCell"
            /\ cells[num_layers - 1].type = "LSTMCell"

\* the constructor was called with one layer and raised
C9_Witness ==
    /\ kind = "TopDownLSTM" /\ pc = "failed" /\ err = "AssertionError"
    /\ args.num_layers = 1 /\ cells = <<>>

\* C10: in TopDownLSTM the layers of a timestep run bottom to top: when layer
\* l > 0 runs at timestep t, every layer below has committed at t and no layer
\* above has, and its bottom input is layer l-1's hidden state committed at t
\* (through dropout).
C10_BottomInputIsCurrentStep ==
    [][\A k \in (DOMAIN trace') \ (DOMAIN trace) :
          (kind = "TopDownLSTM" /\ k[2] > 0) =>
             /\ \A j \in 0..(num_layers - 1) :
                   <<k[1], j>> \in DOMAIN trace <=> j < k[2]
             /\ \E D \in DropSets(dropout, Samples, Cardinality(Samples)) :
                   bottom' = dropout_vec(dropout, trace[<<k[1], k[2] - 1>>].h, D)]_vars

\* a middle layer has just run at timestep 1, without dropout, on the state
\* layer 0 committed at timestep 1, which is not its state of timestep 0
C10_Witness ==
    /\ kind = "TopDownLSTM" /\ pc = "running" /\ dropout = 0
    /\ num_layers = 3 /\ t = 1 /\ l = 2
    /\ <<1, 1>> \in DOMAIN trace /\ <<1, 2>> \notin DOMAIN trace
    /\ bottom = trace[<<1, 0>>].h
    /\ bottom # trace[<<0, 0>>].h

====
